---- MODULE Spec2Model ----
(***************************************************************************)
(* Model of the review-reminder plugin (src/main.ts): the interval table,  *)
(* the date helpers, the vault scanner, the bucketizer and the review      *)
(* modal.                                                                  *)
(*                                                                         *)
(* Representation.                                                         *)
(*   - A JavaScript string is a sequence of one-character strings.         *)
(*   - A JavaScript number is its double, held exactly: Num(n) for an      *)
(*     integer of magnitude below 10^9, Dec(s, ds, e) for any other finite *)
(*     double, with sign s and the digits ds * 10^e that                   *)
(*     Number.prototype.toString gives it, Inf(1), Inf(-1), NaN; -0 is     *)
(*     Num(0).  Undefined is the value of an out-of-range array read.      *)
(*   - A Date is the whole hour its time value lies in: the day number     *)
(*     since the epoch (UTC) and the hour of that day, or InvalidDate.     *)
(*     The clock counts hours since the epoch.  The local time zone is a   *)
(*     fixed offset of whole hours.                                        *)
(***************************************************************************)
EXTENDS Integers, Sequences, FiniteSets, TLC

(* ------------------------------ bounds --------------------------------- *)

MaxLen == 3            \* longest enumerated intervals string
MaxLevel == 5          \* levels 0..MaxLevel are looked up, and level 10
MaxNotes == 2          \* longest enumerated list of notes handed to bucketize
MaxDelta == 8          \* largest enumerated daysUntil
MaxThreshold == 7      \* largest enumerated upcomingDays
MaxDocs == 3           \* most documents in a scanned vault
MaxVault == 1          \* most documents in a reviewed vault
MaxCards == 2          \* most cards in the sidebar
MaxReviews == 1        \* most reviews applied in one behaviour
MaxTicks == 1          \* most clock steps in one behaviour
MaxEdits == 1          \* most changes made in the settings tab in one behaviour
DateSpan == 3          \* days of the window of enumerated dates

(* --------------------------- JavaScript values ------------------------- *)

Num(n) == [t |-> "num", v |-> n]
\* s * (the integer written by the decimal digits ds) * 10^e, s the sign 1
\* or -1: ds are the digits Number.prototype.toString gives the double, the
\* fewest that tell it from every other double; they neither begin nor end
\* with 0.  An integer below 10^9 is a Num, never a Dec.
Dec(s, ds, e) == [t |-> "dec", v |-> <<s, ds, e>>]
Inf(s) == [t |-> "inf", v |-> s]
NaN == [t |-> "nan", v |-> 0]
Undefined == [t |-> "undef", v |-> 0]

\* a number that is an integer below 10^9 in magnitude
IsNum(x) == x.t = "num"

\* two values are the same JavaScript value
SameValue(a, b) == a.t = b.t /\ a.v = b.v

Abs(n) == IF n < 0 THEN 0 - n ELSE n

RECURSIVE Pow10(_)
Pow10(k) == IF k <= 0 THEN 1 ELSE 10 * Pow10(k - 1)

(* ------------------------------ strings -------------------------------- *)

Digits == <<"0", "1", "2", "3", "4", "5", "6", "7", "8", "9">>

DigitSet == {"0", "1", "2", "3", "4", "5", "6", "7", "8", "9"}

IsDigit(c) == c \in DigitSet

DigitVal(c) == (CHOOSE i \in 1..10 : Digits[i] = c) - 1

\* WhiteSpace and LineTerminator of ECMAScript: TAB, LF, VT, FF, CR, SP,
\* NBSP (U+00A0), U+1680 and U+FEFF; a string literal of this language
\* cannot hold the other ones (U+2000..U+200A, U+2028, U+2029, U+202F,
\* U+205F, U+3000)
WhiteSpace == {"\t", "\n", "", "\f", "\r", " ", " ", " ", "﻿"}

IsSpace(c) == c \in WhiteSpace

\* the length of the longest prefix of s whose characters are all in set
PrefixLen(s, set) ==
    IF \A i \in 1..Len(s) : s[i] \in set THEN Len(s)
    ELSE (CHOOSE i \in 1..Len(s) : s[i] \notin set /\ \A j \in 1..(i - 1) : s[j] \in set) - 1

\* the length of the longest suffix of s whose characters are all in set
SuffixLen(s, set) ==
    IF \A i \in 1..Len(s) : s[i] \in set THEN Len(s)
    ELSE Len(s) - (CHOOSE i \in 1..Len(s) :
                      s[i] \notin set /\ \A j \in (i + 1)..Len(s) : s[j] \in set)

\* String.prototype.trimStart
TrimStart(s) == SubSeq(s, PrefixLen(s, WhiteSpace) + 1, Len(s))

\* String.prototype.trim
Trim(s) ==
    LET t == TrimStart(s)
    IN  SubSeq(t, 1, Len(t) - SuffixLen(t, WhiteSpace))

\* String.prototype.split(","): the pieces between commas, empty pieces kept
\* the position of the k-th comma of s; 0 for k = 0, Len(s) + 1 behind the last
CommaAt(s, k) ==
    LET commas == { i \in 1..Len(s) : s[i] = "," }
    IN  IF k = 0 THEN 0
        ELSE IF k > Cardinality(commas) THEN Len(s) + 1
        ELSE CHOOSE i \in commas : Cardinality({ j \in commas : j <= i }) = k

Split(s) ==
    [k \in 1..(Cardinality({ i \in 1..Len(s) : s[i] = "," }) + 1) |->
        SubSeq(s, CommaAt(s, k - 1) + 1, CommaAt(s, k) - 1)]

\* the longest prefix of decimal digits
DigitPrefix(s) == SubSeq(s, 1, PrefixLen(s, DigitSet))

\* the value of at most nine digits
RECURSIVE DigitsValue(_)
DigitsValue(ds) ==
    IF ds = <<>> THEN 0
    ELSE 10 * DigitsValue(SubSeq(ds, 1, Len(ds) - 1)) + DigitVal(ds[Len(ds)])

\* without the leading zeros
StripZeros(ds) == SubSeq(ds, PrefixLen(ds, {"0"}) + 1, Len(ds))

RECURSIVE NatToStr(_)
NatToStr(n) ==
    IF n < 10 THEN <<Digits[n + 1]>>
    ELSE NatToStr(n \div 10) \o <<Digits[(n % 10) + 1]>>

\* the last Len(ds) decimal digits of (the number written by the decimal
\* digits ds) * radix + carry, and what is carried beyond them.  The carry
\* is looked at first, so that the digits to the right are done before the
\* digits to the left are begun.
RECURSIVE MulStep(_, _, _)
MulStep(ds, radix, carry) ==
    IF carry < 0 \/ ds = <<>> THEN [d |-> <<>>, c |-> carry]
    ELSE IF Len(ds) = 1
    THEN [d |-> <<Digits[((DigitVal(ds[1]) * radix + carry) % 10) + 1]>>,
          c |-> (DigitVal(ds[1]) * radix + carry) \div 10]
    ELSE LET low == MulStep(SubSeq(ds, (Len(ds) \div 2) + 1, Len(ds)), radix, carry)
             high == MulStep(SubSeq(ds, 1, Len(ds) \div 2), radix, low.c)
         IN  [d |-> high.d \o low.d, c |-> high.c]

\* the decimal digits of (the number written by the decimal digits ds) *
\* radix + carry
MulAdd(ds, radix, carry) ==
    LET r == MulStep(ds, radix, carry)
    IN  (IF r.c = 0 THEN <<>> ELSE NatToStr(r.c)) \o r.d

Zeros(k) == [i \in 1..k |-> "0"]

\* without the trailing zeros
StripTrailing(ds) == SubSeq(ds, 1, Len(ds) - SuffixLen(ds, {"0"}))

\* the decimal digits of a + b, a and b sequences of decimal digits: a column
\* takes a carry when a column to its right gives one and the columns in
\* between hand it on
AddDigits(a, b) ==
    LET n == 1 + (IF Len(a) > Len(b) THEN Len(a) ELSE Len(b))
        x == Zeros(n - Len(a)) \o a
        y == Zeros(n - Len(b)) \o b
        sum(i) == DigitVal(x[i]) + DigitVal(y[i])
        carry(i) == \E j \in (i + 1)..n :
                        sum(j) >= 10 /\ \A k \in (i + 1)..(j - 1) : sum(k) = 9
    IN  StripZeros([i \in 1..n |->
            Digits[((sum(i) + (IF carry(i) THEN 1 ELSE 0)) % 10) + 1]])

\* the decimal digits of a - b for a >= b: a column lends when a column to
\* its right borrows and the columns in between hand the borrow on
SubDigits(a, b) ==
    LET n == IF Len(a) > Len(b) THEN Len(a) ELSE Len(b)
        x == Zeros(n - Len(a)) \o a
        y == Zeros(n - Len(b)) \o b
        borrow(i) == \E j \in (i + 1)..n :
                        /\ DigitVal(x[j]) < DigitVal(y[j])
                        /\ \A k \in (i + 1)..(j - 1) : x[k] = y[k]
    IN  StripZeros([i \in 1..n |->
            Digits[((DigitVal(x[i]) - DigitVal(y[i])
                     - (IF borrow(i) THEN 1 ELSE 0) + 10) % 10) + 1]])

\* the sign of 0.a - 0.b, a and b sequences of decimal digits
CompareDigits(a, b) ==
    LET n == IF Len(a) > Len(b) THEN Len(a) ELSE Len(b)
        da(i) == IF i <= Len(a) THEN a[i] ELSE "0"
        db(i) == IF i <= Len(b) THEN b[i] ELSE "0"
    IN  IF \A i \in 1..n : da(i) = db(i) THEN 0
        ELSE IF \E i \in 1..n : /\ DigitVal(da(i)) > DigitVal(db(i))
                                 /\ \A j \in 1..(i - 1) : da(j) = db(j)
        THEN 1
        ELSE 0 - 1

\* the sign of a - b, a and b the decimal digits of two integers
CompareWhole(a, b) ==
    LET n == IF Len(a) > Len(b) THEN Len(a) ELSE Len(b)
    IN  CompareDigits(Zeros(n - Len(a)) \o a, Zeros(n - Len(b)) \o b)

\* the number (negative when neg) that Number.prototype.toString writes with
\* the digits ds times 10^e
Canonical(neg, ds, e) ==
    LET sig == StripTrailing(StripZeros(ds))
        ex == e + SuffixLen(ds, {"0"})
    IN  IF sig = <<>> THEN Num(0)
        ELSE IF ex >= 0 /\ Len(sig) + ex <= 9
        THEN Num((IF neg THEN 0 - 1 ELSE 1) * DigitsValue(sig) * Pow10(ex))
        ELSE Dec(IF neg THEN 0 - 1 ELSE 1, sig, ex)

RECURSIVE Power(_, _)
Power(base, k) == IF k <= 0 THEN 1 ELSE base * Power(base, k - 1)

\* the decimal digits of (the number written by ds) * base^count, base 2 or 5
RECURSIVE PowMul(_, _, _)
PowMul(ds, base, count) ==
    IF ds = <<>> THEN <<>>
    ELSE IF count <= 11 THEN MulAdd(ds, Power(base, count), 0)
    ELSE PowMul(PowMul(ds, base, count \div 2), base, count - (count \div 2))

\* sig * 10^e / 2^b as digits d and a power of ten e: a division by two is
\* a multiplication by five and a shift of the decimal point
Scale(sig, e, b) ==
    IF b <= 0 THEN [d |-> PowMul(sig, 2, 0 - b), e |-> e]
    ELSE [d |-> PowMul(sig, 5, b), e |-> e - b]

\* the digits before the decimal point of y.d * 10^y.e
WholeDigits(y) ==
    StripZeros(IF y.e >= 0 THEN y.d \o Zeros(y.e) ELSE SubSeq(y.d, 1, Len(y.d) + y.e))

\* the digits behind the decimal point of y.d * 10^y.e
FractionDigits(y) ==
    IF y.e >= 0 THEN <<>>
    ELSE IF Len(y.d) + y.e < 0 THEN Zeros(0 - y.e - Len(y.d)) \o y.d
    ELSE SubSeq(y.d, Len(y.d) + y.e + 1, Len(y.d))

\* the integer written by ds (no leading zero) is 2^53 or more
OverMantissa(ds) ==
    \/ Len(ds) > 16
    \/ Len(ds) = 16 /\ CompareDigits(ds, <<"9", "0", "0", "7", "1", "9", "9", "2",
                                          "5", "4", "7", "4", "0", "9", "9", "2">>) >= 0

\* the binary exponent of the double next to sig * 10^e, from the guess b up:
\* the least one that leaves the mantissa below 2^53
RECURSIVE BinaryExponent(_, _, _)
BinaryExponent(sig, e, b) ==
    IF OverMantissa(WholeDigits(Scale(sig, e, b))) THEN BinaryExponent(sig, e, b + 1)
    ELSE b

\* the mantissa of the double next to the scaled value y: y to the nearest
\* integer, a half to the even one
Mantissa(y) ==
    LET whole == WholeDigits(y)
        half == CompareDigits(FractionDigits(y), <<"5">>)
        odd == whole # <<>> /\ DigitVal(whole[Len(whole)]) % 2 = 1
    IN  IF half > 0 \/ (half = 0 /\ odd) THEN AddDigits(whole, <<"1">>) ELSE whole

\* the double q * 2^b for a mantissa q of at most 2^53: 2^53 is 2^52 at the
\* next exponent
DoubleWith(q, b) ==
    IF OverMantissa(q)
    THEN [q |-> <<"4", "5", "0", "3", "5", "9", "9", "6", "2", "7", "3", "7", "0", "4", "9", "6">>,
          b |-> b + 1]
    ELSE [q |-> q, b |-> b]

\* the double with binary exponent b next to sig * 10^e
DoubleAt(sig, e, b) == DoubleWith(Mantissa(Scale(sig, e, b)), b)

\* the double next to sig * 10^e (sig without leading zero), as q * 2^b
\* with q below 2^53 and b not below -1074; the guess of b comes from
\* 10^(n-1) <= sig * 10^e and log2(10) > 3.3219
DoubleOf(sig, e) ==
    LET guess == ((((Len(sig) + e - 1) * 33219) \div 10000) - 53)
    IN  DoubleAt(sig, e, BinaryExponent(sig, e, IF guess < 0 - 1074 THEN 0 - 1074 ELSE guess))

\* the decimal digits of the double x.q * 2^x.b and their power of ten
DoubleDigits(x) ==
    IF x.b >= 0 THEN [d |-> PowMul(x.q, 2, x.b), e |-> 0]
    ELSE [d |-> PowMul(x.q, 5, 0 - x.b), e |-> x.b]

\* the number (negative when neg) of the fewest digits that tell the double
\* x, which is exactly sig * 10^e, from every other double, k of them or
\* more: of the two numbers of k digits around x the nearer one (a tie: the
\* even one) if x is the double next to it, else the other one if x is the
\* double next to that
RECURSIVE Shortest(_, _, _, _, _)
Shortest(neg, x, sig, e, k) ==
    IF k >= Len(sig) THEN Canonical(neg, sig, e)
    ELSE LET keep == SubSeq(sig, 1, k)
             half == CompareDigits(SubSeq(sig, k + 1, Len(sig)), <<"5">>)
             up == half > 0 \/ (half = 0 /\ DigitVal(sig[k]) % 2 = 1)
             near == IF up THEN AddDigits(keep, <<"1">>) ELSE keep
             far == IF up THEN keep ELSE AddDigits(keep, <<"1">>)
             ex == e + Len(sig) - k
         IN  IF DoubleOf(near, ex) = x THEN Canonical(neg, near, ex)
             ELSE IF DoubleOf(far, ex) = x THEN Canonical(neg, far, ex)
             ELSE Shortest(neg, x, sig, e, k + 1)

\* the number of digits to begin with for a double 0.sig * 10^n: numbers of
\* 15 digits, and numbers that end at 10^-323 or above, lie further apart
\* than the doubles around them, so a double that fewer digits tell apart is
\* told apart by that many digits as well
FirstLength(n) ==
    IF n + 323 >= 15 THEN 15 ELSE IF n + 323 <= 1 THEN 1 ELSE n + 323

\* the number value of the double x, y its exact decimal digits
ShortestOf(neg, x, y) ==
    Shortest(neg, x, StripZeros(y.d), y.e, FirstLength(Len(StripZeros(y.d)) + y.e))

\* the number value of the double x; 2^1024 and beyond is Infinity
RoundDouble(neg, x) ==
    IF x.b > 971 THEN Inf(IF neg THEN 0 - 1 ELSE 1)
    ELSE IF x.q = <<>> THEN Num(0)
    ELSE ShortestOf(neg, x, DoubleDigits(x))

\* the number written by the digits ds, of any length, times 10^e; with
\* the leading zeros gone the value is 0.sig * 10^n.  A number of at most 15
\* digits in the range of the normal doubles is told from every other
\* number of 15 digits by the double next to it, so its own digits are the
\* digits of that double.
NumberOfDigits(neg, ds, e) ==
    LET sig == StripZeros(ds)
        n == Len(sig) + e
    IN  IF sig = <<>> THEN Num(0)
        ELSE IF n > 309 \/ (n = 309 /\ CompareDigits(sig, <<"1", "8">>) >= 0)
        THEN Inf(IF neg THEN 0 - 1 ELSE 1)
        ELSE IF n < 0 - 323 THEN Num(0)
        ELSE IF Len(StripTrailing(sig)) <= 15 /\ n >= 0 - 306 /\ n <= 308
        THEN Canonical(neg, sig, e)
        ELSE RoundDouble(neg, DoubleOf(sig, e))

\* the double next to (the double y.d * 10^y.e, y.e <= 0, negative when
\* neg) + n
AddToDouble(neg, y, n) ==
    IF ~neg THEN NumberOfDigits(FALSE, AddDigits(y.d, NatToStr(n) \o Zeros(0 - y.e)), y.e)
    ELSE IF CompareWhole(y.d, NatToStr(n) \o Zeros(0 - y.e)) >= 0
    THEN NumberOfDigits(TRUE, SubDigits(y.d, NatToStr(n) \o Zeros(0 - y.e)), y.e)
    ELSE NumberOfDigits(FALSE, SubDigits(NatToStr(n) \o Zeros(0 - y.e), y.d), y.e)

\* a + n for an integer n in 1..31: NaN and undefined give NaN.  A Dec
\* stands for a double; the sum of that double and n is rounded to a double
\* again.  Beyond 10^20 the doubles lie more than 2 * n apart and the sum is
\* a; below 10^-20 the sum is n.
JsAdd(a, n) ==
    IF a.t = "num"
    THEN IF a.v + n < 1000000000 THEN Num(a.v + n)
         ELSE Canonical(FALSE, NatToStr(a.v + n), 0)
    ELSE IF a.t = "dec"
    THEN IF Len(a.v[2]) + a.v[3] > 20 THEN a
         ELSE IF Len(a.v[2]) + a.v[3] < 0 - 20 THEN Num(n)
         ELSE AddToDouble(a.v[1] < 0, DoubleDigits(DoubleOf(a.v[2], a.v[3])), n)
    ELSE IF a.t = "inf" THEN a
    ELSE NaN

\* the whole part of the magnitude of a Dec below 10^9
WholePart(a) ==
    IF Len(a.v[2]) + a.v[3] <= 0 THEN 0
    ELSE DigitsValue(SubSeq(a.v[2], 1, Len(a.v[2]) + a.v[3]))

\* a < n for an integer n in 0..10^9, false when a is NaN or undefined
JsLt(a, n) ==
    IF a.t = "num" THEN a.v < n
    ELSE IF a.t = "dec"
    THEN (IF a.v[1] < 0 THEN TRUE
          ELSE IF Len(a.v[2]) + a.v[3] > 9 THEN FALSE
          ELSE WholePart(a) < n)
    ELSE IF a.t = "inf" THEN a.v < 0
    ELSE FALSE

\* a > 0
JsPositive(a) ==
    IF a.t \in {"num", "inf"} THEN a.v > 0
    ELSE IF a.t = "dec" THEN a.v[1] > 0
    ELSE FALSE

\* String(n) of an integer
IntToStr(n) == IF n < 0 THEN <<"-">> \o NatToStr(0 - n) ELSE NatToStr(n)

NaNStr == <<"N", "a", "N">>

InfinityStr == <<"I", "n", "f", "i", "n", "i", "t", "y">>

\* Number.prototype.toString of a Dec with the k digits ds: n = k + e is
\* where the decimal point goes
DecToStr(sign, ds, e) ==
    LET k == Len(ds)
        n == k + e
        body == IF e >= 0 /\ n <= 21 THEN ds \o Zeros(e)
                ELSE IF 0 < n /\ n <= 21
                THEN SubSeq(ds, 1, n) \o <<".">> \o SubSeq(ds, n + 1, k)
                ELSE IF 0 - 6 < n /\ n <= 0
                THEN <<"0", ".">> \o Zeros(0 - n) \o ds
                ELSE (IF k = 1 THEN ds ELSE <<ds[1], ".">> \o Tail(ds))
                     \o <<"e", IF n - 1 < 0 THEN "-" ELSE "+">> \o NatToStr(Abs(n - 1))
    IN  IF sign < 0 THEN <<"-">> \o body ELSE body

\* String(x) of a number
NumberToString(x) ==
    IF x.t = "num" THEN IntToStr(x.v)
    ELSE IF x.t = "dec" THEN DecToStr(x.v[1], x.v[2], x.v[3])
    ELSE IF x.t = "inf" THEN (IF x.v < 0 THEN <<"-">> \o InfinityStr ELSE InfinityStr)
    ELSE NaNStr

\* parseInt(s, 10): leading white space, an optional sign, then the longest
\* run of digits; whatever follows is ignored; no digit gives NaN
ParseInt(s) ==
    LET t == TrimStart(s)
        neg == t # <<>> /\ Head(t) = "-"
        signed == t # <<>> /\ Head(t) \in {"-", "+"}
        body == IF signed THEN Tail(t) ELSE t
        ds == DigitPrefix(body)
    IN  IF ds = <<>> THEN NaN ELSE NumberOfDigits(neg, ds, 0)

(* --------------------------- interval table ---------------------------- *)

RECURSIVE MapParseInt(_)
MapParseInt(toks) ==
    IF toks = <<>> THEN <<>>
    ELSE <<ParseInt(Trim(Head(toks)))>> \o MapParseInt(Tail(toks))

RECURSIVE FilterIntervals(_)
FilterIntervals(ns) ==
    IF ns = <<>> THEN <<>>
    ELSE IF JsPositive(Head(ns)) THEN <<Head(ns)>> \o FilterIntervals(Tail(ns))
    ELSE FilterIntervals(Tail(ns))

\* parseIntervals(raw): a sequence of numbers
parseIntervals(raw) == FilterIntervals(MapParseInt(Split(raw)))

\* intervals[level]: undefined unless level is an integer in 0..length-1
ArrayGet(arr, level) ==
    IF IsNum(level) /\ level.v >= 0 /\ level.v < Len(arr)
    THEN arr[level.v + 1] ELSE Undefined

\* a lookup that reads past the end of the table instead of clamping
getIntervalNoClamp(intervals, level) ==
    IF Len(intervals) = 0 THEN Num(1) ELSE ArrayGet(intervals, level)

\* getInterval(intervals, level): level is a JavaScript number
getInterval(intervals, level) ==
    IF Len(intervals) = 0 THEN Num(1)
    ELSE IF JsLt(level, Len(intervals)) THEN ArrayGet(intervals, level)
    ELSE intervals[Len(intervals)]

(* ------------------------------- dates --------------------------------- *)

HoursPerDay == 24      \* 86400000 ms, in the model's unit of one hour

InvalidDate == [t |-> "invalid", day |-> 0, hour |-> 0]

\* new Date() when the clock shows h hours since the epoch: a time value is
\* held as its day number (UTC, days since the epoch) and its hour of that day
DateOf(h) == [t |-> "date", day |-> h \div HoursPerDay, hour |-> h % HoursPerDay]

IsValidDate(d) == d.t = "date"

\* MakeDay(year, month, date): the day number of a civil date (month 1..12);
\* a date beyond the end of the month runs on into the following months
DaysFromCivil(y, m, d) ==
    LET yy == IF m <= 2 THEN y - 1 ELSE y
        era == yy \div 400
        yoe == yy - era * 400
        mp == IF m > 2 THEN m - 3 ELSE m + 9
        doy == (153 * mp + 2) \div 5 + d - 1
        doe == yoe * 365 + yoe \div 4 - yoe \div 100 + doy
    IN  era * 146097 + doe - 719468

\* YearFromTime / MonthFromTime / DateFromTime of a day number
CivilFromDays(z) ==
    LET zz == z + 719468
        era == zz \div 146097
        doe == zz - era * 146097
        yoe == (doe - doe \div 1460 + doe \div 36524 - doe \div 146096) \div 365
        doy == doe - (365 * yoe + yoe \div 4 - yoe \div 100)
        mp == (5 * doy + 2) \div 153
        d == doy - (153 * mp + 2) \div 5 + 1
        m == IF mp < 10 THEN mp + 3 ELSE mp - 9
        y == yoe + era * 400 + (IF m <= 2 THEN 1 ELSE 0)
    IN  [y |-> y, m |-> m, d |-> d]

\* the local calendar day number of a date, in a zone tzo hours east of UTC
LocalDay(d, tzo) == d.day + ((d.hour + tzo) \div HoursPerDay)

\* getFullYear / getMonth + 1 / getDate
LocalFields(d, tzo) == CivilFromDays(LocalDay(d, tzo))

\* MakeDate and TimeClip: a civil date and the time since its midnight UTC,
\* which lies in the given hour, on the hour (whole) or behind it; MakeDay
\* gives up beyond a million years, and TimeClip ends a time value 10^8 days
\* from the epoch, to the millisecond
MakeDate(y, m, d, hours, whole) ==
    IF Abs(y) > Pow10(6) \/ Abs(d) > Pow10(9) + 31 THEN InvalidDate
    ELSE LET day == DaysFromCivil(y, m, d) + (hours \div HoursPerDay)
             hour == hours % HoursPerDay
             limit == Pow10(8)
         IN  IF \/ day < 0 - limit
                \/ day > limit
                \/ (day = limit /\ (hour > 0 \/ ~whole))
             THEN InvalidDate
             ELSE [t |-> "date", day |-> day, hour |-> hour]

\* new Date(year, month, date, hours): local fields to a time value
MakeLocal(y, m, d, hourOfDay, tzo) == MakeDate(y, m, d, hourOfDay - tzo, TRUE)

\* String(n).padStart(2, "0")
Pad2(n) == IF Len(NatToStr(n)) < 2 THEN <<"0">> \o NatToStr(n) ELSE NatToStr(n)

\* toDateString(d)
toDateString(d, tzo) ==
    IF ~IsValidDate(d) THEN NaNStr \o <<"-">> \o NaNStr \o <<"-">> \o NaNStr
    ELSE LET f == LocalFields(d, tzo)
         IN  IntToStr(f.y) \o <<"-">> \o Pad2(f.m) \o <<"-">> \o Pad2(f.d)

\* stripTime(d): new Date(year, month, date) reads a year 0..99 as 1900 + year
stripTime(d, tzo) ==
    IF ~IsValidDate(d) THEN InvalidDate
    ELSE LET f == LocalFields(d, tzo)
             y == IF f.y >= 0 /\ f.y <= 99 THEN 1900 + f.y ELSE f.y
         IN  MakeLocal(y, f.m, f.d, 0, tzo)

(* ----------- new Date(string): the date parser of the engine ----------- *)

\* a token of DateStringTokenizer: a number (value n of its first nine
\* significant digits, length len), a symbol c, a keyword (type c, value n,
\* length len), white space, anything else, the end of the input
Token(k, n, len, c) == [k |-> k, n |-> n, len |-> len, c |-> c]

AsciiAlphaToLower(c) ==
    LET upper == <<"A", "B", "C", "D", "E", "F", "G", "H", "I", "J", "K", "L", "M",
                   "N", "O", "P", "Q", "R", "S", "T", "U", "V", "W", "X", "Y", "Z">>
        lower == <<"a", "b", "c", "d", "e", "f", "g", "h", "i", "j", "k", "l", "m",
                   "n", "o", "p", "q", "r", "s", "t", "u", "v", "w", "x", "y", "z">>
    IN  IF \E i \in 1..26 : upper[i] = c
        THEN lower[CHOOSE i \in 1..26 : upper[i] = c]
        ELSE c

\* IsAsciiAlphaOrAbove() && !IsWhiteSpaceChar(): "A" or a character behind
\* it, and not white space.  The characters before "A" are the control
\* characters U+0001..U+001F, the space, the punctuation listed and the
\* digits.
IsWordChar(c) ==
    /\ c \notin {"", "", "", "", "", "", "", "", "", "", "", "", "", "", "", "", "", "", "", "", "", "", "", "", "", "", 
                 "!", "\"", "#", "$", "%", "&", "'", "(", ")", "*", "+", ",", "-", ".",
                 "/", ":", ";", "<", "=", ">", "?", "@"}
    /\ ~IsDigit(c)
    /\ ~IsSpace(c)

KeywordTable ==
    << [p |-> <<"j", "a", "n">>, ty |-> "month", v |-> 1],
       [p |-> <<"f", "e", "b">>, ty |-> "month", v |-> 2],
       [p |-> <<"m", "a", "r">>, ty |-> "month", v |-> 3],
       [p |-> <<"a", "p", "r">>, ty |-> "month", v |-> 4],
       [p |-> <<"m", "a", "y">>, ty |-> "month", v |-> 5],
       [p |-> <<"j", "u", "n">>, ty |-> "month", v |-> 6],
       [p |-> <<"j", "u", "l">>, ty |-> "month", v |-> 7],
       [p |-> <<"a", "u", "g">>, ty |-> "month", v |-> 8],
       [p |-> <<"s", "e", "p">>, ty |-> "month", v |-> 9],
       [p |-> <<"o", "c", "t">>, ty |-> "month", v |-> 10],
       [p |-> <<"n", "o", "v">>, ty |-> "month", v |-> 11],
       [p |-> <<"d", "e", "c">>, ty |-> "month", v |-> 12],
       [p |-> <<"a", "m", "">>, ty |-> "ampm", v |-> 0],
       [p |-> <<"p", "m", "">>, ty |-> "ampm", v |-> 12],
       [p |-> <<"u", "t", "">>, ty |-> "zone", v |-> 0],
       [p |-> <<"u", "t", "c">>, ty |-> "zone", v |-> 0],
       [p |-> <<"z", "", "">>, ty |-> "zone", v |-> 0],
       [p |-> <<"g", "m", "t">>, ty |-> "zone", v |-> 0],
       [p |-> <<"c", "d", "t">>, ty |-> "zone", v |-> 0 - 5],
       [p |-> <<"c", "s", "t">>, ty |-> "zone", v |-> 0 - 6],
       [p |-> <<"e", "d", "t">>, ty |-> "zone", v |-> 0 - 4],
       [p |-> <<"e", "s", "t">>, ty |-> "zone", v |-> 0 - 5],
       [p |-> <<"m", "d", "t">>, ty |-> "zone", v |-> 0 - 6],
       [p |-> <<"m", "s", "t">>, ty |-> "zone", v |-> 0 - 7],
       [p |-> <<"p", "d", "t">>, ty |-> "zone", v |-> 0 - 7],
       [p |-> <<"p", "s", "t">>, ty |-> "zone", v |-> 0 - 8],
       [p |-> <<"t", "", "">>, ty |-> "sep", v |-> 0] >>

\* a word longer than its keyword is a keyword only for a month name
KeywordMatches(entry, pre, len) == entry.p = pre /\ (len <= 3 \/ entry.ty = "month")

RECURSIVE DigitsEnd(_, _)
DigitsEnd(s, i) == IF i <= Len(s) /\ IsDigit(s[i]) THEN DigitsEnd(s, i + 1) ELSE i

RECURSIVE WordEnd(_, _)
WordEnd(s, i) == IF i <= Len(s) /\ IsWordChar(s[i]) THEN WordEnd(s, i + 1) ELSE i

\* SkipParentheses: the position behind the group opened at i
RECURSIVE ParenEnd(_, _, _)
ParenEnd(s, i, balance) ==
    LET b == IF s[i] = ")" THEN balance - 1
             ELSE IF s[i] = "(" THEN balance + 1 ELSE balance
    IN  IF b > 0 /\ i + 1 <= Len(s) THEN ParenEnd(s, i + 1, b) ELSE i + 1

\* ReadUnsignedNumeral: leading zeros skipped, nine significant digits read
NumberToken(ds) ==
    LET sig == StripZeros(ds)
    IN  Token("num", DigitsValue(IF Len(sig) > 9 THEN SubSeq(sig, 1, 9) ELSE sig),
              Len(ds), "")

\* KeywordTable::Lookup on the lower-case three-character prefix of a word
WordToken(w) ==
    LET pre == [j \in 1..3 |-> IF j <= Len(w) THEN AsciiAlphaToLower(w[j]) ELSE ""]
        len == Len(w)
    IN  IF \E i \in 1..Len(KeywordTable) : KeywordMatches(KeywordTable[i], pre, len)
        THEN LET e == KeywordTable[CHOOSE i \in 1..Len(KeywordTable) :
                                       KeywordMatches(KeywordTable[i], pre, len)]
             IN  Token("kw", e.v, len, e.ty)
        ELSE Token("kw", 0, len, "none")

\* DateStringTokenizer::Scan, from position i to the end
RECURSIVE Tokens(_, _)
Tokens(s, i) ==
    IF i > Len(s) THEN <<>>
    ELSE IF IsDigit(s[i])
    THEN <<NumberToken(SubSeq(s, i, DigitsEnd(s, i) - 1))>> \o Tokens(s, DigitsEnd(s, i))
    ELSE IF s[i] \in {":", "-", "+", ".", ")"}
    THEN <<Token("sym", 0, 1, s[i])>> \o Tokens(s, i + 1)
    ELSE IF IsWordChar(s[i])
    THEN <<WordToken(SubSeq(s, i, WordEnd(s, i) - 1))>> \o Tokens(s, WordEnd(s, i))
    ELSE IF IsSpace(s[i])
    THEN <<Token("ws", 0, 1, "")>> \o Tokens(s, i + 1)
    ELSE IF s[i] = "("
    THEN <<Token("unk", 0, 0, "")>> \o Tokens(s, ParenEnd(s, i, 0))
    ELSE <<Token("unk", 0, 0, "")>> \o Tokens(s, i + 1)

TokAt(toks, i) == IF i <= Len(toks) THEN toks[i] ELSE Token("end", 0, 0, "")

IsFixedNumber(tok, k) == tok.k = "num" /\ tok.len = k

IsSymbol(tok, c) == tok.k = "sym" /\ tok.c = c

IsAsciiSign(tok) == tok.k = "sym" /\ tok.c \in {"+", "-"}

IsKeywordZ(tok) == tok.k = "kw" /\ tok.c = "zone" /\ tok.len = 1

IsMonth(x) == x >= 1 /\ x <= 12

IsDay(x) == x >= 1 /\ x <= 31

IsHour(x) == x >= 0 /\ x <= 23

IsMinute(x) == x >= 0 /\ x <= 59

IsSecond(x) == x >= 0 /\ x <= 59

IsMillisecond(x) == x >= 0 /\ x <= 999

\* kNone (kMaxInt): a component that was not set
kNone == 2147483647

\* DayComposer, TimeComposer and TimeZoneComposer before anything is read
EmptyParse ==
    [day |-> <<>>, month |-> kNone, iso |-> FALSE,
     time |-> <<>>, hoff |-> kNone,
     tzs |-> kNone, tzh |-> kNone, tzm |-> kNone]

ParseFailed == [ok |-> FALSE, st |-> EmptyParse]

\* TimeZoneComposer::Set
TzSet(st, hours) ==
    [st EXCEPT !.tzs = (IF hours < 0 THEN 0 - 1 ELSE 1), !.tzh = Abs(hours), !.tzm = 0]

TimeIsExpecting(time, n) ==
    \/ Len(time) = 1 /\ IsMinute(n)
    \/ Len(time) = 2 /\ IsSecond(n)
    \/ Len(time) = 3 /\ IsMillisecond(n)

\* TimeComposer::AddFinal: the slots behind n are 0
TimeAddFinal(time, n) ==
    IF Len(time) >= 4 THEN time
    ELSE Append(time, n) \o [i \in 1..(3 - Len(time)) |-> 0]

\* ReadMilliseconds: the first three digits of the fraction
ReadMilliseconds(tok) ==
    IF tok.len = 1 THEN tok.n * 100
    ELSE IF tok.len = 2 THEN tok.n * 10
    ELSE IF tok.len > 3 THEN tok.n \div Pow10((IF tok.len > 9 THEN 9 ELSE tok.len) - 3)
    ELSE tok.n

RECURSIVE LegacyLoop(_, _, _, _)

\* a number token at i
LegacyNumber(toks, i, st) ==
    LET n == toks[i].n
        dot == IsSymbol(TokAt(toks, i + 1), ".")
        j == IF dot THEN i + 2 ELSE i + 1
    IN  IF IsSymbol(TokAt(toks, i + 1), ":")
        THEN IF IsSymbol(TokAt(toks, i + 2), ":")
             THEN IF st.time # <<>> THEN ParseFailed
                  ELSE LegacyLoop(toks, i + 3, [st EXCEPT !.time = <<n, 0>>], TRUE)
             ELSE IF Len(st.time) >= 4 THEN ParseFailed
             ELSE LegacyLoop(toks, IF IsSymbol(TokAt(toks, i + 2), ".") THEN i + 3 ELSE i + 2,
                             [st EXCEPT !.time = Append(@, n)], TRUE)
        ELSE IF dot /\ TimeIsExpecting(st.time, n)
        THEN IF TokAt(toks, j).k # "num" THEN ParseFailed
             ELSE LegacyLoop(toks, j + 1,
                             [st EXCEPT !.time = TimeAddFinal(Append(@, n),
                                                              ReadMilliseconds(toks[j]))],
                             TRUE)
        ELSE IF (st.tzh # kNone /\ st.tzm = kNone /\ IsMinute(n))
        THEN LegacyLoop(toks, j, [st EXCEPT !.tzm = n], TRUE)
        ELSE IF TimeIsExpecting(st.time, n)
        THEN IF \/ TokAt(toks, j).k \in {"end", "ws"}
                \/ IsKeywordZ(TokAt(toks, j))
                \/ IsAsciiSign(TokAt(toks, j))
             THEN LegacyLoop(toks, j, [st EXCEPT !.time = TimeAddFinal(@, n)], TRUE)
             ELSE ParseFailed
        ELSE IF Len(st.day) >= 3 THEN ParseFailed
        ELSE LegacyLoop(toks, IF IsSymbol(TokAt(toks, j), "-") THEN j + 1 ELSE j,
                        [st EXCEPT !.day = Append(@, n)], TRUE)

\* a word at i
LegacyKeyword(toks, i, st, hasReadNumber) ==
    LET tok == toks[i]
    IN  IF tok.c = "ampm" /\ st.time # <<>>
        THEN LegacyLoop(toks, i + 1, [st EXCEPT !.hoff = tok.n], hasReadNumber)
        ELSE IF tok.c = "month"
        THEN LegacyLoop(toks, IF IsSymbol(TokAt(toks, i + 1), "-") THEN i + 2 ELSE i + 1,
                        [st EXCEPT !.month = tok.n], hasReadNumber)
        ELSE IF tok.c = "zone" /\ hasReadNumber
        THEN LegacyLoop(toks, i + 1, TzSet(st, tok.n), hasReadNumber)
        ELSE IF hasReadNumber \/ TokAt(toks, i + 1).k = "num" THEN ParseFailed
        ELSE LegacyLoop(toks, i + 1, st, hasReadNumber)

\* a sign at i behind UTC or a time: the offset from UTC
LegacyOffset(toks, i, st) ==
    LET sign == IF toks[i].c = "-" THEN 0 - 1 ELSE 1
        has == TokAt(toks, i + 1).k = "num"
        n == IF has THEN toks[i + 1].n ELSE 0
        length == IF has THEN toks[i + 1].len ELSE 0
        j == IF has THEN i + 2 ELSE i + 1
    IN  IF IsSymbol(TokAt(toks, j), ":")
        THEN LegacyLoop(toks, j, [st EXCEPT !.tzs = sign, !.tzh = n, !.tzm = kNone], TRUE)
        ELSE IF length \in {1, 2}
        THEN LegacyLoop(toks, j, [st EXCEPT !.tzs = sign, !.tzh = n, !.tzm = 0], TRUE)
        ELSE IF length \in {3, 4}
        THEN LegacyLoop(toks, j, [st EXCEPT !.tzs = sign, !.tzh = n \div 100,
                                            !.tzm = n % 100], TRUE)
        ELSE ParseFailed

\* the loop of DateParser::Parse over the tokens ES5 parsing left: the
\* legacy parser
LegacyLoop(toks, i, st, hasReadNumber) ==
    IF i > Len(toks) THEN [ok |-> TRUE, st |-> st]
    ELSE IF toks[i].k = "num" THEN LegacyNumber(toks, i, st)
    ELSE IF toks[i].k = "kw" THEN LegacyKeyword(toks, i, st, hasReadNumber)
    ELSE IF IsAsciiSign(toks[i]) /\ ((st.tzh = 0 /\ st.tzm = 0) \/ st.time # <<>>)
    THEN LegacyOffset(toks, i, st)
    ELSE IF (IsAsciiSign(toks[i]) \/ IsSymbol(toks[i], ")")) /\ hasReadNumber
    THEN ParseFailed
    ELSE LegacyLoop(toks, i + 1, st, hasReadNumber)

\* the legacy parser from token i on, with what ES5 parsing has read
Legacy(toks, i, st) == LegacyLoop(toks, i, st, st.day # <<>>)

\* ES5 parsing succeeded: a form without time and zone is UTC
Es5Done(st) ==
    [ok |-> TRUE,
     st |-> [(IF st.tzh = kNone /\ st.time = <<>> THEN TzSet(st, 0) ELSE st)
                EXCEPT !.iso = TRUE]]

\* the end of the time string: Z or [+-]hh:mm or [+-]hhmm, then nothing
Es5Zone(toks, p, st) ==
    LET sign == IF TokAt(toks, p).c = "+" THEN 1 ELSE 0 - 1
        a == TokAt(toks, p + 1)
        b == TokAt(toks, p + 3)
    IN  IF IsKeywordZ(TokAt(toks, p))
        THEN (IF p + 1 > Len(toks) THEN Es5Done(TzSet(st, 0)) ELSE ParseFailed)
        ELSE IF IsAsciiSign(TokAt(toks, p))
        THEN IF IsFixedNumber(a, 4)
             THEN IF IsHour(a.n \div 100) /\ IsMinute(a.n % 100) /\ p + 2 > Len(toks)
                  THEN Es5Done([st EXCEPT !.tzs = sign, !.tzh = a.n \div 100,
                                          !.tzm = a.n % 100])
                  ELSE ParseFailed
             ELSE IF /\ IsFixedNumber(a, 2) /\ IsHour(a.n)
                     /\ IsSymbol(TokAt(toks, p + 2), ":")
                     /\ IsFixedNumber(b, 2) /\ IsMinute(b.n)
                     /\ p + 4 > Len(toks)
             THEN Es5Done([st EXCEPT !.tzs = sign, !.tzh = a.n, !.tzm = b.n])
             ELSE ParseFailed
        ELSE IF p > Len(toks) THEN Es5Done(st)
        ELSE ParseFailed

\* behind HH:mm: [:ss[.sss]]
Es5Seconds(toks, p, st, hourIs24) ==
    LET sec == TokAt(toks, p + 1)
        ms == TokAt(toks, p + 3)
    IN  IF ~IsSymbol(TokAt(toks, p), ":") THEN Es5Zone(toks, p, st)
        ELSE IF ~IsFixedNumber(sec, 2) \/ ~IsSecond(sec.n) \/ (hourIs24 /\ sec.n > 0)
        THEN ParseFailed
        ELSE IF ~IsSymbol(TokAt(toks, p + 2), ".")
        THEN Es5Zone(toks, p + 2, [st EXCEPT !.time = Append(@, sec.n)])
        ELSE IF ms.k # "num" \/ (hourIs24 /\ ms.n > 0) THEN ParseFailed
        ELSE Es5Zone(toks, p + 4,
                     [st EXCEPT !.time = Append(Append(@, sec.n), ReadMilliseconds(ms))])

\* behind the date: nothing, or T and HH:mm; anything else is left to the
\* legacy parser
Es5Time(toks, p, st) ==
    LET h == TokAt(toks, p + 1)
        mi == TokAt(toks, p + 3)
    IN  IF ~(TokAt(toks, p).k = "kw" /\ TokAt(toks, p).c = "sep")
        THEN (IF p > Len(toks) THEN Es5Done(st) ELSE Legacy(toks, p, st))
        ELSE IF ~IsFixedNumber(h, 2) \/ h.n > 24 THEN ParseFailed
        ELSE IF ~IsSymbol(TokAt(toks, p + 2), ":") THEN ParseFailed
        ELSE IF ~IsFixedNumber(mi, 2) \/ ~IsMinute(mi.n) \/ (h.n = 24 /\ mi.n > 0)
        THEN ParseFailed
        ELSE Es5Seconds(toks, p + 4, [st EXCEPT !.time = <<h.n, mi.n>>], h.n = 24)

\* behind the year: [-MM[-DD]]
Es5MonthDay(toks, p, st) ==
    LET mo == TokAt(toks, p + 1)
        dd == TokAt(toks, p + 3)
    IN  IF ~IsSymbol(TokAt(toks, p), "-") THEN Es5Time(toks, p, st)
        ELSE IF ~IsFixedNumber(mo, 2) \/ ~IsMonth(mo.n) THEN Legacy(toks, p + 1, st)
        ELSE IF ~IsSymbol(TokAt(toks, p + 2), "-")
        THEN Es5Time(toks, p + 2, [st EXCEPT !.day = Append(@, mo.n)])
        ELSE IF ~IsFixedNumber(dd, 2) \/ ~IsDay(dd.n)
        THEN Legacy(toks, p + 3, [st EXCEPT !.day = Append(@, mo.n)])
        ELSE Es5Time(toks, p + 4, [st EXCEPT !.day = Append(Append(@, mo.n), dd.n)])

\* DateParser::Parse: ParseES5DateTime ([+-]YYYYYY or YYYY first), and the
\* legacy parser on what that leaves
ParseTokens(toks) ==
    LET first == TokAt(toks, 1)
        year == TokAt(toks, 2)
        sign == IF first.c = "-" THEN 0 - 1 ELSE 1
    IN  IF IsAsciiSign(first)
        THEN IF ~IsFixedNumber(year, 6) THEN Legacy(toks, 1, EmptyParse)
             ELSE IF sign < 0 /\ year.n = 0
             THEN Legacy(<<first>> \o SubSeq(toks, 3, Len(toks)), 1, EmptyParse)
             ELSE Es5MonthDay(toks, 3, [EmptyParse EXCEPT !.day = <<sign * year.n>>])
        ELSE IF IsFixedNumber(first, 4)
        THEN Es5MonthDay(toks, 2, [EmptyParse EXCEPT !.day = <<first.n>>])
        ELSE Legacy(toks, 1, EmptyParse)

\* DayComposer::Write: year, month and day of the numbers read; missing
\* numbers are 1; outside the ES5 form a year 0..49 is 2000 + year and a
\* year 50..99 is 1900 + year
DayWrite(st) ==
    LET c == [i \in 1..3 |-> IF i <= Len(st.day) THEN st.day[i] ELSE 1]
        ymd == IF st.month = kNone
               THEN IF st.iso \/ ~IsDay(c[1])
                    THEN [y |-> c[1], m |-> c[2], d |-> c[3]]
                    ELSE [y |-> c[3], m |-> c[1], d |-> c[2]]
               ELSE IF ~IsDay(c[1])
               THEN [y |-> c[1], m |-> st.month, d |-> c[2]]
               ELSE [y |-> c[2], m |-> st.month, d |-> c[1]]
        year == IF st.iso THEN ymd.y
                ELSE IF ymd.y >= 0 /\ ymd.y <= 49 THEN ymd.y + 2000
                ELSE IF ymd.y >= 50 /\ ymd.y <= 99 THEN ymd.y + 1900
                ELSE ymd.y
    IN  [ok |-> Len(st.day) >= 1 /\ IsMonth(ymd.m) /\ IsDay(ymd.d),
         y |-> year, m |-> ymd.m, d |-> ymd.d]

\* TimeComposer::Write: missing slots are 0; am and pm shift a 12-hour clock
TimeWrite(st) ==
    LET c == [i \in 1..4 |-> IF i <= Len(st.time) THEN st.time[i] ELSE 0]
        hour == IF st.hoff # kNone THEN (c[1] % 12) + st.hoff ELSE c[1]
    IN  [ok |-> /\ (st.hoff # kNone => (c[1] >= 0 /\ c[1] <= 12))
                /\ \/ IsHour(hour) /\ IsMinute(c[2]) /\ IsSecond(c[3]) /\ IsMillisecond(c[4])
                   \/ hour = 24 /\ c[2] = 0 /\ c[3] = 0 /\ c[4] = 0,
         seconds |-> hour * 3600 + c[2] * 60 + c[3],
         ms |-> c[4]]

\* TimeZoneComposer::Write: the offset in seconds east of UTC, or the local
\* zone when the string names none.  The offset is hour * 3600 + minute * 60
\* in 32-bit unsigned arithmetic, 4 * quarter with quarter counted modulo
\* 2^30, and an offset beyond 2^31 - 1 seconds fails.
TzWrite(st, tzo) ==
    LET h == IF st.tzh = kNone THEN 0 ELSE st.tzh
        m == IF st.tzm = kNone THEN 0 ELSE st.tzm
        quarter == ((((900 * (h \div 32768)) % 32768) * 32768)
                    + 900 * (h % 32768) + 15 * m) % 1073741824
    IN  IF st.tzs = kNone THEN [ok |-> TRUE, seconds |-> tzo * 3600]
        ELSE IF quarter >= 536870912 THEN [ok |-> FALSE, seconds |-> 0]
        ELSE [ok |-> TRUE, seconds |-> st.tzs * 4 * quarter]

\* the time value of a parse r: the day, the time and the zone it read
ComposeDate(r, tzo) ==
    LET day == DayWrite(r.st)
        time == TimeWrite(r.st)
        zone == TzWrite(r.st, tzo)
        \* the time of day less the offset, hours and seconds apart
        rest == (time.seconds % 3600) - (zone.seconds % 3600)
        hours == (time.seconds \div 3600) - (zone.seconds \div 3600) + (rest \div 3600)
    IN  IF r.ok /\ day.ok /\ time.ok /\ zone.ok
        THEN MakeDate(day.y, day.m, day.d, hours, rest % 3600 = 0 /\ time.ms = 0)
        ELSE InvalidDate

\* new Date(s) in a zone tzo hours east of UTC
DateParse(s, tzo) == ComposeDate(ParseTokens(Tokens(s, 1)), tzo)

\* daysBetween(a, b), both valid dates: Math.round of the difference in days,
\* to the nearest integer, halves upwards
daysBetween(a, b) ==
    (b.day - a.day) + ((b.hour - a.hour + (HoursPerDay \div 2)) \div HoursPerDay)

\* d.setDate(date): the same local time of day on the day of the month that
\* is the integer part of date (towards zero); 10^9 or more is out of range
DayOfMonth(d, date, tzo) ==
    IF date.t = "dec" /\ Len(date.v[2]) + date.v[3] > 9 THEN InvalidDate
    ELSE MakeLocal(LocalFields(d, tzo).y, LocalFields(d, tzo).m,
                   IF date.t = "num" THEN date.v ELSE date.v[1] * WholePart(date),
                   (d.hour + tzo) % HoursPerDay, tzo)

\* d.setDate(d.getDate() + n): the same local time of day, as many calendar
\* days on as the integer part of getDate() + n; n is a JavaScript number, and
\* NaN, undefined, Infinity or a day out of range makes the date invalid
AddDays(d, n, tzo) ==
    IF ~IsValidDate(d) \/ n.t \notin {"num", "dec"} THEN InvalidDate
    ELSE IF n.t = "dec" /\ Len(n.v[2]) + n.v[3] > 9 THEN InvalidDate
    ELSE DayOfMonth(d, JsAdd(n, LocalFields(d, tzo).d), tzo)

(* ------------------------- frontmatter values -------------------------- *)

\* a frontmatter value is a JavaScript number or one of these
Absent == [t |-> "absent", v |-> 0]          \* undefined: the key is not there
Null == [t |-> "null", v |-> 0]              \* a key with no value
Str(s) == [t |-> "str", v |-> s]
List(l) == [t |-> "list", v |-> l]           \* an array of strings
Bool(b) == [t |-> "bool", v |-> b]
Obj == [t |-> "obj", v |-> 0]                \* a nested mapping

\* !raw
Falsy(x) ==
    \/ x.t \in {"absent", "null", "nan"}
    \/ x.t = "str" /\ Len(x.v) = 0
    \/ x.t = "num" /\ x.v = 0
    \/ x.t = "bool" /\ ~x.v

\* Array.prototype.join(",")
RECURSIVE Join(_)
Join(l) ==
    IF l = <<>> THEN <<>>
    ELSE IF Len(l) = 1 THEN Head(l)
    ELSE Head(l) \o <<",">> \o Join(Tail(l))

\* String(raw)
JsString(x) ==
    IF x.t = "str" THEN x.v
    ELSE IF x.t = "list" THEN Join(x.v)
    ELSE IF x.t \in {"num", "dec", "inf", "nan"} THEN NumberToString(x)
    ELSE IF x.t = "bool"
    THEN (IF x.v THEN <<"t", "r", "u", "e">> ELSE <<"f", "a", "l", "s", "e">>)
    ELSE IF x.t = "obj"
    THEN <<"[", "o", "b", "j", "e", "c", "t", " ", "O", "b", "j", "e", "c", "t", "]">>
    ELSE IF x.t = "null" THEN <<"n", "u", "l", "l">>
    ELSE <<"u", "n", "d", "e", "f", "i", "n", "e", "d">>

\* the digit c stands for in a literal of the given radix, or the radix
RadixDigitVal(c, radix) ==
    LET digits == Digits \o <<"a", "b", "c", "d", "e", "f">>
    IN  IF \E i \in 1..radix : digits[i] = AsciiAlphaToLower(c)
        THEN (CHOOSE i \in 1..radix : digits[i] = AsciiAlphaToLower(c)) - 1
        ELSE radix

\* the decimal digits of the number written by s in the given radix
RECURSIVE RadixToDecimal(_, _, _)
RadixToDecimal(s, radix, acc) ==
    IF s = <<>> THEN acc
    ELSE RadixToDecimal(Tail(s), radix, MulAdd(acc, radix, RadixDigitVal(Head(s), radix)))

\* the exponent part behind the digits ds of a decimal literal, fracLen of
\* them behind the point: nothing, or e / E, an optional sign and digits (an
\* exponent of more than six digits is as good as 10^6)
WithExponent(neg, ds, fracLen, rest) ==
    LET hasExp == rest # <<>> /\ Head(rest) \in {"e", "E"}
        r3 == IF hasExp THEN Tail(rest) ELSE <<>>
        expNeg == r3 # <<>> /\ Head(r3) = "-"
        ed == IF r3 # <<>> /\ Head(r3) \in {"-", "+"} THEN Tail(r3) ELSE r3
        size == IF Len(StripZeros(ed)) > 6 THEN Pow10(6) ELSE DigitsValue(StripZeros(ed))
        ex == IF ~hasExp THEN 0 ELSE IF expNeg THEN 0 - size ELSE size
    IN  IF (IF hasExp THEN ed # <<>> /\ DigitPrefix(ed) = ed ELSE rest = <<>>)
        THEN NumberOfDigits(neg, ds, ex - fracLen)
        ELSE NaN

\* a decimal literal behind its sign: Infinity, or digits with an optional
\* fraction and an optional exponent
DecimalToNumber(neg, body) ==
    LET ip == DigitPrefix(body)
        r1 == SubSeq(body, Len(ip) + 1, Len(body))
        hasDot == r1 # <<>> /\ Head(r1) = "."
        fp == IF hasDot THEN DigitPrefix(Tail(r1)) ELSE <<>>
        r2 == IF hasDot THEN SubSeq(r1, Len(fp) + 2, Len(r1)) ELSE r1
    IN  IF body = InfinityStr THEN Inf(IF neg THEN 0 - 1 ELSE 1)
        ELSE IF ip = <<>> /\ fp = <<>> THEN NaN
        ELSE WithExponent(neg, ip \o fp, Len(fp), r2)

\* Number(string), the StringNumericLiteral grammar: white space trimmed, the
\* empty string is 0, a 0x / 0o / 0b literal without sign, Infinity with an
\* optional sign, decimal digits with an optional sign, fraction and
\* exponent; anything else is NaN
StringToNumber(s) ==
    LET t == Trim(s)
        signed == t # <<>> /\ Head(t) \in {"-", "+"}
        \* the radix of a literal that starts 0x, 0o or 0b, else 0
        radix == IF Len(t) < 3 \/ t[1] # "0" THEN 0
                 ELSE IF t[2] \in {"x", "X"} THEN 16
                 ELSE IF t[2] \in {"o", "O"} THEN 8
                 ELSE IF t[2] \in {"b", "B"} THEN 2
                 ELSE 0
        literal == SubSeq(t, 3, Len(t))
    IN  IF t = <<>> THEN Num(0)
        ELSE IF radix # 0 /\ \A i \in 1..Len(literal) : RadixDigitVal(literal[i], radix) < radix
        THEN NumberOfDigits(FALSE, RadixToDecimal(literal, radix, <<>>), 0)
        ELSE DecimalToNumber(signed /\ Head(t) = "-", IF signed THEN Tail(t) ELSE t)

\* Number(raw ?? 0)
JsNumber(x) ==
    IF x.t \in {"absent", "null"} THEN Num(0)
    ELSE IF x.t \in {"num", "dec", "inf", "nan"} THEN x
    ELSE IF x.t = "bool" THEN (IF x.v THEN Num(1) ELSE Num(0))
    ELSE IF x.t = "obj" THEN NaN
    ELSE StringToNumber(JsString(x))

\* (raw ?? []).map(String) raises a TypeError unless raw is an array
TagsThrow(x) == x.t \notin {"absent", "null", "list"}

TagsOf(x) == IF x.t = "list" THEN x.v ELSE <<>>

(* ------------------------------- state --------------------------------- *)

VARIABLES
    vault,        \* getMarkdownFiles(): the documents, each with its frontmatter
    settings,     \* plugin.settings
    now,          \* the wall clock, hours since the epoch
    tz,           \* the local zone, hours east of UTC
    notes,        \* plugin.notes
    statusBar,    \* the buckets updateStatusBar counted, <<>> before the first
    view,         \* the sidebar: open or not, and the cards it shows
    modal,        \* <<>> or <<the open ReviewModal>>
    pending,      \* the applyReview calls that have not returned yet
    saving,       \* number of saveSettings calls waiting for saveData
    lastReview,   \* <<>> or <<the last applyReview call that completed>>
    scanThrew,    \* the last refresh ended in scanVault's TypeError
    fresh,        \* a refresh has run since the vault, the settings or the clock
                  \* last changed
    reviews,      \* number of reviews started
    ticks,        \* number of clock steps taken
    edits,        \* number of changes made in the settings tab
    fin, fout, fpc \* input, output and stage of the pure-function specifications

vars == <<vault, settings, now, tz, notes, statusBar, view, modal, pending, saving,
          lastReview, scanThrew, fresh, reviews, ticks, edits, fin, fout, fpc>>

appVars == <<vault, settings, now, tz, notes, statusBar, view, modal, pending, saving,
             lastReview, scanThrew, fresh, reviews, ticks, edits>>

funVars == <<fin, fout, fpc>>

DefaultIntervals ==
    <<"1", ",", " ", "6", ",", " ", "9", ",", " ", "1", "9", ",", " ", "7", "5">>

DEFAULT_SETTINGS ==
    [dateProperty |-> "review_next", freqProperty |-> "review_freq",
     upcomingDays |-> 7, intervals |-> DefaultIntervals, notifyOnStartup |-> TRUE]

\* the frontmatter keys told apart: the two default properties, tags, and
\* one more name, which no document holds until a review writes it
Keys == {"review_next", "review_freq", "tags", "level"}

\* a key as the text typed for it
NameOf(k) ==
    IF k = "review_next" THEN <<"r", "e", "v", "i", "e", "w", "_", "n", "e", "x", "t">>
    ELSE IF k = "review_freq" THEN <<"r", "e", "v", "i", "e", "w", "_", "f", "r", "e", "q">>
    ELSE IF k = "tags" THEN <<"t", "a", "g", "s">>
    ELSE <<"l", "e", "v", "e", "l">>

\* value.trim() || fallback, as a key
PropertyOf(value, fallback) ==
    IF Trim(value) = <<>> THEN fallback
    ELSE CHOOSE k \in Keys : NameOf(k) = Trim(value)

\* a document: whether it has frontmatter, and the frontmatter's keys.  The
\* metadata cache is taken to hold what the file holds.
Doc(hasFm, dateV, freqV, tagsV) ==
    [fm |-> hasFm,
     f |-> [k \in Keys |-> IF k = "review_next" THEN dateV
                           ELSE IF k = "review_freq" THEN freqV
                           ELSE IF k = "tags" THEN tagsV
                           ELSE Absent]]

(* ------------------------------ scanVault ------------------------------ *)

\* the date the scanner reads from a document
ScannedDate(doc, st, tzo) ==
    stripTime(DateParse(JsString(doc.f[st.dateProperty]), tzo), tzo)

\* the document gets past the three "continue" statements; reviewNext is
\* its scanned date
PassesDate(doc, st, reviewNext) ==
    /\ doc.fm
    /\ ~Falsy(doc.f[st.dateProperty])
    /\ IsValidDate(reviewNext)

\* the record pushed for file i
NoteOf(i, doc, st, today, reviewNext) ==
    [file |-> i,
     reviewNext |-> reviewNext,
     reviewFreq |-> JsNumber(doc.f[st.freqProperty]),
     tags |-> TagsOf(doc.f["tags"]),
     daysUntil |-> daysBetween(today, reviewNext)]

\* the notes pushed by the loop, in the order of the files
RECURSIVE CollectNotes(_, _, _, _, _)
CollectNotes(v, i, st, today, tzo) ==
    IF i > Len(v) THEN <<>>
    ELSE LET reviewNext == ScannedDate(v[i], st, tzo)
         IN  IF PassesDate(v[i], st, reviewNext)
             THEN <<NoteOf(i, v[i], st, today, reviewNext)>>
                  \o CollectNotes(v, i + 1, st, today, tzo)
             ELSE CollectNotes(v, i + 1, st, today, tzo)

\* a comparator that sorts the other way round
CompareNotesDescending(a, b) == b.daysUntil - a.daysUntil

\* the comparator of notes.sort
CompareNotes(a, b) == a.daysUntil - b.daysUntil

\* Array.prototype.sort is stable: an element goes behind every element
\* that does not compare greater than it
RECURSIVE InsertNote(_, _)
InsertNote(sorted, n) ==
    IF sorted = <<>> THEN <<n>>
    ELSE IF CompareNotes(Head(sorted), n) > 0 THEN <<n>> \o sorted
    ELSE <<Head(sorted)>> \o InsertNote(Tail(sorted), n)

RECURSIVE SortNotes(_)
SortNotes(ns) ==
    IF ns = <<>> THEN <<>>
    ELSE InsertNote(SortNotes(SubSeq(ns, 1, Len(ns) - 1)), ns[Len(ns)])

\* the outcome of the scan that pushed the notes collected: a TypeError from
\* the tags of a document that got past the date checks, or the sorted notes
ScanResult(v, collected) ==
    IF \E k \in 1..Len(collected) : TagsThrow(v[collected[k].file].f["tags"])
    THEN [threw |-> TRUE, notes |-> <<>>]
    ELSE [threw |-> FALSE, notes |-> SortNotes(collected)]

\* scanVault()
scanVault(v, st, clock, tzo) ==
    ScanResult(v, CollectNotes(v, 1, st, stripTime(DateOf(clock), tzo), tzo))

(* ------------------------------ bucketize ------------------------------ *)

\* a bucketizer whose upcoming bucket stops one day short
BucketOfStrict(daysUntil, threshold) ==
    IF daysUntil < 0 THEN "overdue"
    ELSE IF daysUntil = 0 THEN "today"
    ELSE IF daysUntil < threshold THEN "upcoming"
    ELSE "later"

BucketOf(daysUntil, threshold) ==
    IF daysUntil < 0 THEN "overdue"
    ELSE IF daysUntil = 0 THEN "today"
    ELSE IF daysUntil <= threshold THEN "upcoming"
    ELSE "later"

RECURSIVE SelectBucket(_, _, _)
SelectBucket(ns, b, threshold) ==
    IF ns = <<>> THEN <<>>
    ELSE IF BucketOf(Head(ns).daysUntil, threshold) = b
    THEN <<Head(ns)>> \o SelectBucket(Tail(ns), b, threshold)
    ELSE SelectBucket(Tail(ns), b, threshold)

bucketize(ns, st) ==
    [overdue |-> SelectBucket(ns, "overdue", st.upcomingDays),
     today |-> SelectBucket(ns, "today", st.upcomingDays),
     upcoming |-> SelectBucket(ns, "upcoming", st.upcomingDays),
     later |-> SelectBucket(ns, "later", st.upcomingDays)]

(* ------------------------------- actions ------------------------------- *)

\* renderView(): the cards, section by section
RenderCards(ns, st) ==
    LET b == bucketize(ns, st)
    IN  b.overdue \o b.today \o b.upcoming \o b.later

\* refresh() on vault v under settings st: scanVault, updateStatusBar,
\* renderView of the open view.  A TypeError in scanVault leaves everything
\* as it was.
RefreshWith(v, st) ==
    \E r \in {scanVault(v, st, now, tz)} :
        /\ scanThrew' = r.threw
        /\ fresh' = TRUE
        /\ IF r.threw
           THEN UNCHANGED <<notes, statusBar, view>>
           ELSE /\ notes' = r.notes
                /\ statusBar' = <<bucketize(r.notes, st)>>
                /\ view' = IF view.open
                           THEN [view EXCEPT !.cards = RenderCards(r.notes, st)]
                           ELSE view

\* the "resolved" event, the refresh command, the refresh button
Refresh ==
    /\ RefreshWith(vault, settings)
    /\ UNCHANGED <<vault, settings, now, tz, modal, pending, lastReview, reviews, ticks, edits, saving>>
    /\ UNCHANGED funVars

\* activateView() with no leaf yet: the view opens and renders its own scan;
\* the container is emptied before scanVault can throw
ActivateView ==
    /\ ~view.open
    /\ \E r \in {scanVault(vault, settings, now, tz)} :
           view' = [open |-> TRUE,
                    cards |-> IF r.threw THEN <<>> ELSE RenderCards(r.notes, settings)]
    /\ UNCHANGED <<vault, settings, now, tz, notes, statusBar, modal, pending,
                   lastReview, scanThrew, fresh, reviews, ticks, edits, saving>>
    /\ UNCHANGED funVars

\* ReviewModal.onOpen on note n at time clock
ModalFor(n, st, clock, tzo) ==
    LET currentFreq == n.reviewFreq
        interval == getInterval(parseIntervals(st.intervals), currentFreq)
    IN  [note |-> n,
         newFreq |-> JsAdd(currentFreq, 1),
         interval |-> interval,
         nextDate |-> AddDays(DateOf(clock), interval, tzo),
         openedAt |-> clock]

\* the review button of card i: markReviewed(note)
MarkReviewed(i) ==
    /\ view.open
    /\ modal = <<>>
    /\ i \in 1..Len(view.cards)
    /\ modal' = <<ModalFor(view.cards[i], settings, now, tz)>>
    /\ UNCHANGED <<vault, settings, now, tz, notes, statusBar, view, pending,
                   lastReview, scanThrew, fresh, reviews, ticks, edits, saving>>
    /\ UNCHANGED funVars

quickOptions == <<1, 3, 7, 14, 30, 90>>

\* the callback handed to processFrontMatter: the level first, the date second
WriteReview(v, n, nextDate, newFreq, dateProp, freqProp, tzo) ==
    [v EXCEPT ![n.file] =
        [fm |-> TRUE,
         f |-> [[@.f EXCEPT ![freqProp] = newFreq]
                    EXCEPT ![dateProp] = Str(toDateString(nextDate, tzo))]]]

\* a click handler: applyReview(note, nextDate, newFreq) runs up to its await,
\* with the property names read from the settings, and the modal closes
StartReview(n, nextDate, newFreq, via, days) ==
    /\ reviews < MaxReviews
    /\ pending' = Append(pending,
                         [note |-> n, nextDate |-> nextDate, newFreq |-> newFreq,
                          dateProp |-> settings.dateProperty,
                          freqProp |-> settings.freqProperty,
                          via |-> via, days |-> days, at |-> now,
                          openedAt |-> modal[1].openedAt, written |-> FALSE])
    /\ reviews' = reviews + 1
    /\ modal' = <<>>
    /\ UNCHANGED <<vault, settings, now, tz, notes, statusBar, view, lastReview,
                   scanThrew, fresh, ticks, edits, saving>>
    /\ UNCHANGED funVars

\* the Confirm button: the date computed when the modal opened
Confirm ==
    /\ modal # <<>>
    /\ StartReview(modal[1].note, modal[1].nextDate, modal[1].newFreq,
                   "confirm", modal[1].interval)

\* quick-pick button k: a date computed at the click
QuickPick(k) ==
    /\ modal # <<>>
    /\ StartReview(modal[1].note, AddDays(DateOf(now), Num(quickOptions[k]), tz),
                   modal[1].newFreq, "quick", Num(quickOptions[k]))

\* processFrontMatter runs the callback of pending call k on the document;
\* applyReview is still waiting.  Calls are served in any order.
ProcessFrontMatter(k) ==
    /\ k \in 1..Len(pending)
    /\ ~pending[k].written
    /\ vault' = WriteReview(vault, pending[k].note, pending[k].nextDate, pending[k].newFreq,
                            pending[k].dateProp, pending[k].freqProp, tz)
    /\ pending' = [pending EXCEPT ![k].written = TRUE]
    /\ fresh' = FALSE
    /\ UNCHANGED <<settings, now, tz, notes, statusBar, view, modal, lastReview,
                   scanThrew, reviews, ticks, edits, saving>>
    /\ UNCHANGED funVars

\* processFrontMatter rejects pending call k before it runs the callback (the
\* file is gone or cannot be read): applyReview ends there, without Notice
\* and without refresh()
RejectFrontMatter(k) ==
    /\ k \in 1..Len(pending)
    /\ ~pending[k].written
    /\ pending' = SubSeq(pending, 1, k - 1) \o SubSeq(pending, k + 1, Len(pending))
    /\ UNCHANGED <<vault, settings, now, tz, notes, statusBar, view, modal, lastReview,
                   scanThrew, fresh, reviews, ticks, edits, saving>>
    /\ UNCHANGED funVars

\* the rest of pending call k of applyReview, after the await: the Notice
\* and refresh()
ApplyReview(k) ==
    /\ k \in 1..Len(pending)
    /\ pending[k].written
    /\ LET p == pending[k]
       IN  lastReview' = <<[via |-> p.via, file |-> p.note.file,
                            level |-> p.note.reviewFreq, newFreq |-> p.newFreq,
                            dateProp |-> p.dateProp, freqProp |-> p.freqProp,
                            days |-> p.days, at |-> p.at, openedAt |-> p.openedAt,
                            written |-> toDateString(p.nextDate, tz)]>>
    /\ RefreshWith(vault, settings)
    /\ pending' = SubSeq(pending, 1, k - 1) \o SubSeq(pending, k + 1, Len(pending))
    /\ UNCHANGED <<vault, settings, now, tz, modal, reviews, ticks, edits, saving>>
    /\ UNCHANGED funVars

\* the Cancel button
Cancel ==
    /\ modal # <<>>
    /\ modal' = <<>>
    /\ UNCHANGED <<vault, settings, now, tz, notes, statusBar, view, pending,
                   lastReview, scanThrew, fresh, reviews, ticks, edits, saving>>
    /\ UNCHANGED funVars

TickHours == 12

\* time passes
Tick ==
    /\ ticks < MaxTicks
    /\ ticks' = ticks + 1
    /\ now' = now + TickHours
    /\ fresh' = FALSE
    /\ UNCHANGED <<vault, settings, tz, notes, statusBar, view, modal, pending,
                   lastReview, scanThrew, reviews, edits, saving>>
    /\ UNCHANGED funVars

\* updateStatusBar() / startupNotice(): bucketize(this.notes)
UpdateStatusBar ==
    /\ statusBar' = <<bucketize(notes, settings)>>
    /\ UNCHANGED <<vault, settings, now, tz, notes, view, modal, pending, lastReview,
                   scanThrew, fresh, reviews, ticks, edits, saving>>
    /\ UNCHANGED funVars

(* ---------------------------- settings tab ---------------------------- *)

\* what is typed into the two property fields
PropertyTexts ==
    { <<" ">>, <<" ">> \o NameOf("review_next"), NameOf("level") \o <<"\t">> }

\* what is typed into the intervals field
IntervalTexts == { <<>>, <<"0", ",", " ", "3">> }

\* the ends of the slider
SliderEnds == {1, 30}

\* an onChange handler of the settings tab up to the await in saveSettings:
\* plugin.settings is changed to st
ChangeSettings(st) ==
    /\ edits' = edits + 1
    /\ settings' = st
    /\ saving' = saving + 1
    /\ fresh' = FALSE
    /\ UNCHANGED <<vault, now, tz, notes, statusBar, view, modal, pending,
                   lastReview, scanThrew, reviews, ticks>>
    /\ UNCHANGED funVars

\* "Date property"
SetDateProperty(value) ==
    /\ edits < MaxEdits
    /\ ChangeSettings([settings EXCEPT !.dateProperty = PropertyOf(value, "review_next")])

\* "Frequency / level property"
SetFreqProperty(value) ==
    /\ edits < MaxEdits
    /\ ChangeSettings([settings EXCEPT !.freqProperty = PropertyOf(value, "review_freq")])

\* "Intervals (days)"
SetIntervals(value) ==
    /\ edits < MaxEdits
    /\ ChangeSettings([settings EXCEPT !.intervals = value])

\* "Upcoming threshold (days)"
SetUpcomingDays(value) ==
    /\ edits < MaxEdits
    /\ ChangeSettings([settings EXCEPT !.upcomingDays = value])

\* "Startup notification": the toggle is turned over
SetNotifyOnStartup ==
    /\ edits < MaxEdits
    /\ ChangeSettings([settings EXCEPT !.notifyOnStartup = ~@])

\* the rest of saveSettings, after saveData: refresh()
SaveSettings ==
    /\ saving > 0
    /\ saving' = saving - 1
    /\ RefreshWith(vault, settings)
    /\ UNCHANGED <<vault, settings, now, tz, modal, pending, lastReview, reviews,
                   ticks, edits>>
    /\ UNCHANGED funVars

(* ------------------------------ start states --------------------------- *)

\* 2024-02-28 20:00 UTC
StartClock == DaysFromCivil(2024, 2, 28) * HoursPerDay + 20

FunIdle == fin = <<>> /\ fout = <<>> /\ fpc = "idle"

Feb25 == <<"2", "0", "2", "4", "-", "0", "2", "-", "2", "5">>
Feb27 == <<"2", "0", "2", "4", "-", "0", "2", "-", "2", "7">>
Feb28 == <<"2", "0", "2", "4", "-", "0", "2", "-", "2", "8">>
Abc == <<"a", "b", "c">>
Foo == <<"f", "o", "o">>

\* the documents a scanned vault is made of
ScanPool ==
    { Doc(FALSE, Absent, Absent, Absent),
      Doc(TRUE, Absent, Num(1), Absent),
      Doc(TRUE, Str(<<>>), Absent, Absent),
      Doc(TRUE, Bool(TRUE), Obj, Str(Foo)),
      Doc(TRUE, Str(Feb25), Absent, List(<<Foo>>)),
      Doc(TRUE, Str(<<"2", "0", "2", "4", "-", "0", "2", "-", "3", "0">>), Str(Abc), Null),
      Doc(TRUE, Str(Feb28), Str(<<"3">>), Str(Foo)),
      Doc(TRUE, Str(<<"M", "a", "r", " ", "1", ",", " ", "2", "0", "2", "4">>),
          Str(<<"\t", "1", ".", "5">>), Absent) }

SeqsUpTo(S, n) == UNION { [1..k -> S] : k \in 0..n }

\* loadData() of a plugin that never saved its settings
NoData == [k \in {} |-> 0]

\* Object.assign({}, DEFAULT_SETTINGS, saved)
loadSettings(saved) ==
    [k \in DOMAIN DEFAULT_SETTINGS |->
        IF k \in DOMAIN saved THEN saved[k] ELSE DEFAULT_SETTINGS[k]]

InitApp(pool, maxDocs, zones, data) ==
    /\ vault \in SeqsUpTo(pool, maxDocs)
    /\ settings \in { loadSettings(saved) : saved \in data }
    /\ now = StartClock
    /\ tz \in zones
    /\ notes = <<>> /\ statusBar = <<>> /\ view = [open |-> FALSE, cards |-> <<>>]
    /\ modal = <<>> /\ pending = <<>> /\ lastReview = <<>>
    /\ scanThrew = FALSE /\ fresh = FALSE
    /\ reviews = 0 /\ ticks = 0 /\ edits = 0 /\ saving = 0

(* --------------------- the plugin: scan, review, time ------------------ *)

\* the documents of the vault the whole plugin runs on: one overdue at level
\* -1, one due later with a level that is no number
DuePool ==
    { Doc(TRUE, Str(Feb25), Num(-1), Absent),
      Doc(TRUE, Str(<<"2", "0", "2", "4", "-", "0", "3", "-", "0", "1">>), Str(Abc), Absent) }

\* what loadData() returns: nothing, or the settings object of an earlier
\* version of the plugin, which held the threshold only
SavedData == { NoData, [k \in {"upcomingDays"} |-> 30] }

\* the plugin loaded, west of UTC
Init == InitApp(DuePool, MaxVault, {0 - 5}, SavedData) /\ FunIdle

Next ==
    \/ Refresh
    \/ ActivateView
    \/ \E i \in 1..MaxCards : MarkReviewed(i)
    \/ Confirm
    \/ \E k \in 1..Len(quickOptions) : QuickPick(k)
    \/ \E k \in 1..MaxReviews : ProcessFrontMatter(k)
    \/ \E k \in 1..MaxReviews : RejectFrontMatter(k)
    \/ \E k \in 1..MaxReviews : ApplyReview(k)
    \/ Cancel
    \/ Tick
    \/ \E value \in PropertyTexts : SetDateProperty(value)
    \/ \E value \in PropertyTexts : SetFreqProperty(value)
    \/ \E value \in IntervalTexts : SetIntervals(value)
    \/ \E value \in SliderEnds : SetUpcomingDays(value)
    \/ SetNotifyOnStartup
    \/ SaveSettings

Spec == Init /\ [][Next]_vars

(* ------------- the review flow: the sidebar and the modal ------------- *)

NextReview ==
    \/ Refresh
    \/ ActivateView
    \/ \E i \in 1..MaxCards : MarkReviewed(i)
    \/ Confirm
    \/ \E k \in 1..Len(quickOptions) : QuickPick(k)
    \/ \E k \in 1..MaxReviews : ProcessFrontMatter(k)
    \/ \E k \in 1..MaxReviews : RejectFrontMatter(k)
    \/ \E k \in 1..MaxReviews : ApplyReview(k)
    \/ Cancel

(* ------------------------- scanning a vault ---------------------------- *)

InitScan == InitApp(ScanPool, MaxDocs, {0 - 5, 0, 9}, {NoData}) /\ FunIdle

NextScan ==
    \/ Refresh
    \/ ActivateView

SpecScan == InitScan /\ [][NextScan]_vars

(* ------------------- bucketize on its own (pure) ----------------------- *)

InitBuckets ==
    /\ vault = <<>>
    /\ now = StartClock /\ tz = 0
    /\ settings \in { [DEFAULT_SETTINGS EXCEPT !.upcomingDays = th] : th \in 0..MaxThreshold }
    \* plugin.notes is always a result of scanVault: sorted by daysUntil; note
    \* i is due ds[i] days after today
    /\ notes \in
         { [i \in 1..Len(ds) |->
               [file |-> i,
                reviewNext |-> AddDays(stripTime(DateOf(StartClock), 0), Num(ds[i]), 0),
                reviewFreq |-> Num(0), tags |-> <<>>, daysUntil |-> ds[i]]] :
           ds \in { d \in SeqsUpTo((0 - 2)..MaxDelta, MaxNotes) :
                      \A i \in 1..Len(d) : \A j \in 1..Len(d) : i < j => d[i] <= d[j] } }
    /\ statusBar = <<>> /\ view = [open |-> FALSE, cards |-> <<>>]
    /\ modal = <<>> /\ pending = <<>> /\ lastReview = <<>>
    /\ scanThrew = FALSE /\ fresh = FALSE
    /\ reviews = 0 /\ ticks = 0 /\ edits = 0 /\ saving = 0
    /\ FunIdle

NextBuckets == UpdateStatusBar

SpecBuckets == InitBuckets /\ [][NextBuckets]_vars

(* ---------------- parseIntervals and getInterval (pure) ---------------- *)

\* the settings strings tried: every short string over a small alphabet, the
\* default, and a token of 309 digits, beyond the largest double
RawIntervals ==
    SeqsUpTo({"1", "0", ",", " ", "\t", "-", "a"}, MaxLen)
        \cup {DefaultIntervals, [i \in 1..309 |-> "9"]}

InitIntervals ==
    /\ vault = <<>> /\ settings = DEFAULT_SETTINGS /\ now = StartClock /\ tz = 0
    /\ notes = <<>> /\ statusBar = <<>> /\ view = [open |-> FALSE, cards |-> <<>>]
    /\ modal = <<>> /\ pending = <<>> /\ lastReview = <<>>
    /\ scanThrew = FALSE /\ fresh = FALSE
    /\ reviews = 0 /\ ticks = 0 /\ edits = 0 /\ saving = 0
    /\ fin \in RawIntervals
    /\ fout = <<>>
    /\ fpc = "in"

\* const intervals = parseIntervals(this.plugin.settings.intervals)
ParseIntervalsStep ==
    /\ fpc = "in"
    /\ fout' = [table |-> parseIntervals(fin)]
    /\ fpc' = "parsed"
    /\ UNCHANGED fin
    /\ UNCHANGED appVars

\* const interval = getInterval(intervals, currentFreq)
GetIntervalStep(level) ==
    /\ fpc = "parsed"
    /\ fout' = [table |-> fout.table, level |-> level,
                result |-> getInterval(fout.table, level)]
    /\ fpc' = "looked"
    /\ UNCHANGED fin
    /\ UNCHANGED appVars

NextIntervals ==
    \/ ParseIntervalsStep
    \/ \E level \in { Num(l) : l \in ((0 - 1)..MaxLevel) \cup {10} }
                          \cup {NaN, Inf(1), Dec(1, <<"1", "5">>, 0 - 1)} :
           GetIntervalStep(level)

SpecIntervals == InitIntervals /\ [][NextIntervals]_vars

(* ------------- toDateString and the scanner's parse (pure) ------------- *)

InitDates ==
    /\ vault = <<>> /\ settings = DEFAULT_SETTINGS /\ now = StartClock
    /\ tz \in (0 - 12)..14
    /\ notes = <<>> /\ statusBar = <<>> /\ view = [open |-> FALSE, cards |-> <<>>]
    /\ modal = <<>> /\ pending = <<>> /\ lastReview = <<>>
    /\ scanThrew = FALSE /\ fresh = FALSE
    /\ reviews = 0 /\ ticks = 0 /\ edits = 0 /\ saving = 0
    \* every hour of DateSpan days from 2024-02-28 00:00 UTC
    /\ fin \in { DateOf(DaysFromCivil(2024, 2, 28) * HoursPerDay + h) :
                    h \in 0..(DateSpan * HoursPerDay - 1) }
    /\ fout = <<>>
    /\ fpc = "in"

\* fm[dateProp] = toDateString(nextDate)
FormatStep ==
    /\ fpc = "in"
    /\ fout' = [s |-> toDateString(fin, tz)]
    /\ fpc' = "formatted"
    /\ UNCHANGED fin
    /\ UNCHANGED appVars

\* const reviewNext = stripTime(new Date(String(raw)))
ParseStep ==
    /\ fpc = "formatted"
    /\ fout' = [s |-> fout.s, parsed |-> stripTime(DateParse(fout.s, tz), tz)]
    /\ fpc' = "parsed"
    /\ UNCHANGED fin
    /\ UNCHANGED appVars

NextDates ==
    \/ FormatStep
    \/ ParseStep

SpecDates == InitDates /\ [][NextDates]_vars

(* ------------- reviews next to edits made outside the plugin ----------- *)

\* the level field of document i is edited outside the plugin (in the editor,
\* by a sync); the "resolved" event that follows is the Refresh action
ExternalEdit(i) ==
    /\ i \in 1..Len(vault)
    /\ vault[i].fm
    /\ ~SameValue(vault[i].f["review_freq"], Num(5))
    /\ vault' = [vault EXCEPT ![i].f["review_freq"] = Num(5)]
    /\ fresh' = FALSE
    /\ UNCHANGED <<settings, now, tz, notes, statusBar, view, modal, pending,
                   lastReview, scanThrew, reviews, ticks, edits, saving>>
    /\ UNCHANGED funVars

RacePool ==
    { Doc(TRUE, Str(Feb27), Absent, Absent),
      Doc(TRUE, Str(Feb28), Num(2), List(<<Foo>>)) }

InitRace == InitApp(RacePool, MaxVault, {0 - 5, 0, 9}, {NoData}) /\ FunIdle

NextRace ==
    \/ NextReview
    \/ Tick
    \/ \E i \in 1..MaxVault : ExternalEdit(i)

SpecRace == InitRace /\ [][NextRace]_vars

(* -------------- reviews of a vault of one or two documents ------------- *)

\* a vault of one or two documents, in UTC
InitNames ==
    /\ InitApp(RacePool, MaxCards, {0}, {NoData})
    /\ vault # <<>>
    /\ FunIdle

\* the review flow without the clock, and the two property fields of the
\* settings tab
NextNames ==
    \/ NextReview
    \/ \E value \in PropertyTexts : SetDateProperty(value)
    \/ \E value \in PropertyTexts : SetFreqProperty(value)
    \/ SaveSettings

SpecNames == InitNames /\ [][NextNames]_vars

(* ------------------------------- claims -------------------------------- *)

InBucket(b, n) == \E k \in 1..Len(b) : b[k] = n

\* C1: bucketize puts every note in exactly one of the four buckets, and that
\* bucket is overdue iff daysUntil < 0, today iff daysUntil = 0, upcoming iff
\* 0 < daysUntil <= threshold, later iff daysUntil > threshold; with
\* threshold 0 upcoming is empty; the four sizes add up to the input's size.
C1_BucketPartition ==
    statusBar # <<>> =>
        LET b == statusBar[1]
            th == settings.upcomingDays
        IN  /\ \A i \in 1..Len(notes) :
                LET n == notes[i]
                IN  /\ InBucket(b.overdue, n) <=> n.daysUntil < 0
                    /\ InBucket(b.today, n) <=> n.daysUntil = 0
                    /\ InBucket(b.upcoming, n) <=> (0 < n.daysUntil /\ n.daysUntil <= th)
                    /\ InBucket(b.later, n) <=> n.daysUntil > th
            /\ Len(b.overdue) + Len(b.today) + Len(b.upcoming) + Len(b.later) = Len(notes)
            /\ (th = 0 => b.upcoming = <<>>)

\* threshold 7: a note due in 7 days is upcoming and one due in 8 days is later
C1_Witness ==
    /\ statusBar # <<>>
    /\ settings.upcomingDays = 7
    /\ Len(notes) = 2 /\ notes[1].daysUntil = 7 /\ notes[2].daysUntil = 8
    /\ statusBar[1].upcoming = <<notes[1]>>
    /\ statusBar[1].later = <<notes[2]>>

\* C2: for a level >= 0, getInterval gives 1 for the empty table, table[level]
\* when level < length, and the last element when level >= length, however
\* large the level (Infinity included); for the default table level 0 gives
\* 1, level 3 gives 19 and level 10 gives 75.
C2_GetIntervalClamps ==
    (/\ fpc = "looked"
     /\ \/ IsNum(fout.level) /\ fout.level.v >= 0
        \/ SameValue(fout.level, Inf(1))) =>
        LET table == fout.table
            beyond == ~IsNum(fout.level) \/ fout.level.v >= Len(table)
        IN  /\ Len(table) = 0 => SameValue(fout.result, Num(1))
            /\ (Len(table) > 0 /\ ~beyond) =>
                   SameValue(fout.result, table[fout.level.v + 1])
            /\ (Len(table) > 0 /\ beyond) => SameValue(fout.result, table[Len(table)])
            /\ (fin = DefaultIntervals /\ SameValue(fout.level, Num(0))) =>
                   SameValue(fout.result, Num(1))
            /\ (fin = DefaultIntervals /\ SameValue(fout.level, Num(3))) =>
                   SameValue(fout.result, Num(19))
            /\ (fin = DefaultIntervals /\ SameValue(fout.level, Num(10))) =>
                   SameValue(fout.result, Num(75))

\* the default table looked up at level 10, beyond its end
C2_Witness ==
    /\ fpc = "looked"
    /\ fin = DefaultIntervals
    /\ SameValue(fout.level, Num(10))
    /\ SameValue(fout.result, Num(75))

\* the tokens of raw, each trimmed and read by parseInt
TokenValues(raw) == [i \in 1..Len(Split(raw)) |-> ParseInt(Trim(Split(raw)[i]))]

\* a finite whole number
IsInteger(x) == x.t = "num" \/ (x.t = "dec" /\ x.v[3] >= 0)

PositiveToken(raw, i) == IsInteger(TokenValues(raw)[i]) /\ JsPositive(TokenValues(raw)[i])

\* the index of the k-th token that is a positive integer
KthPositive(raw, k) ==
    CHOOSE i \in 1..Len(Split(raw)) :
        /\ PositiveToken(raw, i)
        /\ Cardinality({ j \in 1..i : PositiveToken(raw, j) }) = k

\* C9: parseIntervals returns, in their order, exactly the comma-separated
\* tokens that after trimming parse as an integer greater than 0; every
\* returned element is a positive integer; an input without a valid token
\* gives the empty table.
C9_ParseIntervals ==
    fpc \in {"parsed", "looked"} =>
        LET table == fout.table
        IN  /\ Len(table) = Cardinality({ i \in 1..Len(Split(fin)) : PositiveToken(fin, i) })
            /\ \A k \in 1..Len(table) :
                /\ IsInteger(table[k]) /\ JsPositive(table[k])
                /\ SameValue(table[k], TokenValues(fin)[KthPositive(fin, k)])
            /\ (fin = DefaultIntervals => table = <<Num(1), Num(6), Num(9), Num(19), Num(75)>>)
            /\ (fin = <<"1", "a", ",">> => table = <<Num(1)>>)

\* this step is the write of pending call k
Wrote(k) ==
    /\ k \in 1..Len(pending)
    /\ Len(pending') = Len(pending)
    /\ ~pending[k].written
    /\ pending'[k].written

\* the number after the integer n
Successor(n) == IF n + 1 < Pow10(9) THEN Num(n + 1) ELSE Dec(1, <<"1">>, 9)

\* C3: whichever button applies the review, the level handed to applyReview
\* is the record's level plus one, and the level field of the document holds
\* the record's level plus one after the write (stated for a record whose
\* level is an integer).
C3_LevelPlusOne ==
    [][/\ reviews' # reviews =>
            LET level == modal[1].note.reviewFreq
                handed == pending'[Len(pending')].newFreq
            IN  IsNum(level) => SameValue(handed, Successor(level.v))
       /\ \A k \in 1..Len(pending) : Wrote(k) =>
            LET level == pending[k].note.reviewFreq
                stored == vault'[pending[k].note.file].f[pending[k].freqProp]
            IN  IsNum(level) => SameValue(stored, Successor(level.v))]_vars

\* the canonical string of a local day number
DayString(dayNumber) ==
    LET f == CivilFromDays(dayNumber)
    IN  IntToStr(f.y) \o <<"-">> \o Pad2(f.m) \o <<"-">> \o Pad2(f.d)

\* C4: a review applied with interval d writes the calendar day d days after
\* the day of the click, on the Confirm path and on the quick-pick path,
\* however much time passed since the modal opened.
C4_DueDateFromClickDay ==
    (lastReview # <<>> /\ IsNum(lastReview[1].days)) =>
        lastReview[1].written =
            DayString(LocalDay(DateOf(lastReview[1].at), tz) + lastReview[1].days.v)

\* the date field is there, not empty, and parses to a valid date
HasValidDate(doc) ==
    /\ doc.fm
    /\ doc.f["review_next"].t \notin {"absent", "null"}
    /\ ~(doc.f["review_next"].t = "str" /\ Len(doc.f["review_next"].v) = 0)
    /\ IsValidDate(DateParse(JsString(doc.f["review_next"]), tz))

Emitted(i) == \E k \in 1..Len(notes) : notes[k].file = i

\* C5: scanVault emits a record for a document iff the document has a date
\* field that is present, non-empty and a valid date; no document makes the
\* scan fail or drops another document.
C5_EmitIffValidDate ==
    fresh => \A i \in 1..Len(vault) : Emitted(i) <=> HasValidDate(vault[i])

\* C6: every scanned record's level is a non-negative integer: 0 when the
\* level field is absent and 0 when it is not numeric.
C6_LevelNonNegative ==
    fresh => \A k \in 1..Len(notes) :
        LET raw == vault[notes[k].file].f["review_freq"]
            level == notes[k].reviewFreq
        IN  /\ IsNum(level) /\ level.v >= 0
            /\ raw.t = "absent" => SameValue(level, Num(0))
            /\ JsNumber(raw).t = "nan" => SameValue(level, Num(0))

\* C7: parsing toDateString(d) the way the scanner does gives the calendar
\* day of d, in every time zone.
C7_DateRoundTrip ==
    fpc = "parsed" => fout.parsed = stripTime(fin, tz)

\* C8: the scanned list is ascending in daysUntil, and notes with the same
\* daysUntil keep the order of their files.
C8_SortedStable ==
    (fresh /\ ~scanThrew) =>
        \A i \in 1..Len(notes) : \A j \in 1..Len(notes) :
            i < j => /\ notes[i].daysUntil <= notes[j].daysUntil
                     /\ notes[i].daysUntil = notes[j].daysUntil
                            => notes[i].file < notes[j].file

\* three notes: the first file is due last, the other two are due the same day
C8_Witness ==
    /\ fresh /\ ~scanThrew
    /\ Len(notes) = 3
    /\ notes[1].file = 2 /\ notes[2].file = 3 /\ notes[3].file = 1
    /\ notes[1].daysUntil = notes[2].daysUntil
    /\ notes[2].daysUntil < notes[3].daysUntil

\* C10: every day count the modal turns into a due date for applyReview is a
\* positive integer.
C10_PositiveInterval ==
    \A k \in 1..Len(pending) : IsNum(pending[k].days) /\ pending[k].days.v > 0

\* the form YYYY-MM-DD with two-digit month and day
IsPaddedDate(s) ==
    /\ Len(s) = 10
    /\ s[5] = "-" /\ s[8] = "-"
    /\ \A i \in (1..10) \ {5, 8} : IsDigit(s[i])

\* C11: applyReview writes, on the identified document only, the due date as a
\* zero-padded YYYY-MM-DD string into the configured date field and newFreq
\* into the configured level field, whatever the two field names are set to;
\* every other field and every other document stays as it was, and a rescan
\* runs when the call whose write was made returns.
C11_ApplyReviewWrites ==
    [][/\ \A c \in 1..Len(pending) : Wrote(c) =>
            LET p == pending[c]
                i == p.note.file
                written == vault'[i].f
            IN  /\ written[p.dateProp].t = "str"
                /\ written[p.dateProp].v = toDateString(p.nextDate, tz)
                /\ IsPaddedDate(written[p.dateProp].v)
                /\ SameValue(written[p.freqProp], p.newFreq)
                /\ \A k \in Keys \ {p.dateProp, p.freqProp} :
                       written[k] = vault[i].f[k]
                /\ \A j \in (1..Len(vault)) \ {i} : vault'[j] = vault[j]
                /\ Len(vault') = Len(vault)
       /\ \A c \in 1..Len(pending) :
            (/\ pending[c].written
             /\ pending' = SubSeq(pending, 1, c - 1) \o SubSeq(pending, c + 1, Len(pending))) =>
                /\ lastReview' # <<>>
                /\ lastReview'[1].file = pending[c].note.file
                /\ fresh']_vars

\* C12: a review applied on day T with a positive interval d is reported by a
\* scan on the same day T with daysUntil = d and the level raised by one, in
\* every time zone (the scan under the two property names the review wrote).
C12_ScanAfterReview ==
    (/\ lastReview # <<>>
     /\ fresh /\ ~scanThrew
     /\ settings.dateProperty = lastReview[1].dateProp
     /\ settings.freqProperty = lastReview[1].freqProp
     /\ settings.dateProperty # settings.freqProperty
     /\ IsNum(lastReview[1].days) /\ lastReview[1].days.v > 0
     /\ LocalDay(DateOf(now), tz) = LocalDay(DateOf(lastReview[1].at), tz)) =>
        \E k \in 1..Len(notes) :
            /\ notes[k].file = lastReview[1].file
            /\ notes[k].daysUntil = lastReview[1].days.v
            /\ IsNum(lastReview[1].level) =>
                   SameValue(notes[k].reviewFreq, Num(lastReview[1].level.v + 1))

\* C13: every applied review sets the stored level to one more than the level
\* stored on the document just before the write, also when the modal was
\* opened on a record scanned before the level field last changed.
C13_StoredLevelPlusOne ==
    [][\A k \in 1..Len(pending) : Wrote(k) =>
         LET before == JsNumber(vault[pending[k].note.file].f[pending[k].freqProp])
             after == vault'[pending[k].note.file].f[pending[k].freqProp]
         IN  IsNum(before) => SameValue(after, Num(before.v + 1))]_vars

====
